---- MODULE Spec2Model ----
(***************************************************************************)
(* A model of typed-arena (src/lib.rs): Arena<T> over a ChunkList<T> of    *)
(* Vec<T> chunks.  Values are object identities 1, 2, 3, ... numbered in   *)
(* the order they are handed to the arena.  A chunk is a Vec: its items,   *)
(* its capacity and the identity of its heap buffer (ptr), which changes   *)
(* whenever the Vec reallocates.  T is assumed not to be zero-sized.       *)
(***************************************************************************)
EXTENDS Integers, Sequences, FiniteSets, TLC

\* ---------------------------------------------------------------- bounds
MaxInitCap == 2          \* with_capacity(n) is tried for n in 0..MaxInitCap
MaxSeqLen == 3           \* longest sequence handed to alloc_extend
MaxElems == 6            \* values handed to one arena over its life
WordBits == 6            \* width of usize in the ordinary configuration
SmallWordBits == 4       \* width of usize in the overflow configuration
MaxCycles == 1           \* reference cycles the caller builds between objects
MaxUninit == 1           \* uninitialized slots an arena may hold before the
                         \* caller stops asking for more

\* ------------------------------------------------------ program constants
MIN_CAPACITY == 1

\* ---------------------------------------------------------------- state
VARIABLES
    usize_max,        \* largest usize of the target
    overflow_checks,  \* TRUE: arithmetic overflow panics (debug profile);
                      \* FALSE: it wraps (release profile)
    chunks,           \* the ChunkList inside Arena.chunks
    borrow,           \* RefCell borrow flag of Arena.chunks: 0 free, 1 mutably borrowed
    pc,               \* "idle", "alloc_extend", "iter_mut", "panicked", "into_vec",
                      \* "dropped"
    call,             \* the running alloc_extend activation
    ret,              \* outcome of the last finished allocation call
    refs,             \* every reference handed out by a completed call
    nextVal,          \* identity of the next value handed to the arena
    requested,        \* the n given to with_capacity
    twin,             \* the ChunkList of an arena built by with_capacity(1)
                      \* and driven by the same calls
    twin_ret,         \* outcome of the twin's last call
    single,           \* the ChunkList of an arena that was in the state the last
                      \* alloc_extend found and got its values by alloc, one by one
    itermut,          \* the IterMut, and the slots it has yielded
    vec,              \* result of into_vec
    other,            \* CycleParticipant.other of each object (0 = None)
    destroyed         \* objects destroyed by dropping the arena, in order

vars == <<usize_max, overflow_checks, chunks, borrow, pc, call, ret, refs,
          nextVal, requested, twin, twin_ret, single, itermut, vec, other,
          destroyed>>

\* ------------------------------------------------------------ arithmetic
Max(a, b) == IF a >= b THEN a ELSE b

Min(a, b) == IF a <= b THEN a ELSE b

RECURSIVE Pow2(_)
Pow2(n) == IF n = 0 THEN 1 ELSE 2 * Pow2(n - 1)

\* usize::checked_mul: -1 stands for None
checked_mul(a, b, umax) == IF a * b > umax THEN -1 ELSE a * b

RECURSIVE NextPow2From(_, _)
NextPow2From(p, x) == IF p >= x THEN p ELSE NextPow2From(2 * p, x)

\* usize::checked_next_power_of_two: smallest power of two >= x; -1 stands for None
checked_next_power_of_two(x, umax) ==
    LET p == NextPow2From(1, x) IN IF p > umax THEN -1 ELSE p

\* isize::MAX of the target: no Vec of a sized T holds more elements
isize_max(umax) == (umax - 1) \div 2

\* ------------------------------------------------------------------- Vec
\* Vec::with_capacity
VecWithCapacity(n) == [items |-> <<>>, cap |-> n, ptr |-> 0]

\* VecPushHint that never grows the buffer: the element does not get in
VecPushHintNoGrow(v, x, lower, umax) ==
    IF Len(v.items) < v.cap
    THEN [ok |-> TRUE, vec |-> [v EXCEPT !.items = Append(@, x)]]
    ELSE [ok |-> TRUE, vec |-> v]

\* Vec::push / one round of Vec::extend: pushing into a full Vec reallocates
\* its buffer (RawVec amortized growth for at least len + lower + 1 slots);
\* ok is FALSE when the new capacity is not representable.
VecPushHint(v, x, lower, umax) ==
    IF Len(v.items) < v.cap
    THEN [ok |-> TRUE, vec |-> [v EXCEPT !.items = Append(@, x)]]
    ELSE LET newcap == Max(2 * v.cap, Len(v.items) + lower + 1) IN
         IF newcap > isize_max(umax)
         THEN [ok |-> FALSE, vec |-> v]
         ELSE [ok |-> TRUE,
               vec |-> [items |-> Append(v.items, x), cap |-> newcap, ptr |-> v.ptr + 1]]

RECURSIVE VecExtendAll(_, _, _)

RECURSIVE VecExtendAllReversed(_, _, _)
\* VecExtendAll taking the elements last to first
VecExtendAllReversed(v, xs, umax) ==
    IF xs = <<>> THEN [ok |-> TRUE, vec |-> v]
    ELSE LET r == VecPushHint(v, xs[Len(xs)], Len(xs) - 1, umax) IN
         IF ~r.ok THEN r
         ELSE VecExtendAllReversed(r.vec, SubSeq(xs, 1, Len(xs) - 1), umax)

\* Vec::extend with an iterator that is run to its end in one go
VecExtendAll(v, xs, umax) ==
    IF xs = <<>> THEN [ok |-> TRUE, vec |-> v]
    ELSE LET r == VecPushHint(v, Head(xs), Len(xs) - 1, umax) IN
         IF ~r.ok THEN r ELSE VecExtendAll(r.vec, Tail(xs), umax)

\* ------------------------------------------------------------- ChunkList
Len0(c) == Len(c.items)

\* WithCapacity without the floor of MIN_CAPACITY
WithCapacityNoFloor(n) ==
    [current |-> VecWithCapacity(n), rest |-> <<>>]

\* Arena::with_capacity
WithCapacity(n) ==
    [current |-> VecWithCapacity(Max(MIN_CAPACITY, n)), rest |-> <<>>]

\* Reserve without the doubling: the new chunk is as large as the old one
\* unless more is asked for
ReserveNoDoubling(cl, additional, umax) ==
    LET required_cap == checked_next_power_of_two(additional, umax)
        new_capacity == Max(cl.current.cap, required_cap)
    IN IF required_cap = -1
       THEN [ok |-> FALSE, overflow |-> TRUE, chunks |-> cl]
       ELSE IF new_capacity > isize_max(umax)
            THEN [ok |-> FALSE, overflow |-> FALSE, chunks |-> cl]
            ELSE [ok |-> TRUE, overflow |-> FALSE,
                  chunks |-> [current |-> VecWithCapacity(new_capacity),
                              rest |-> Append(cl.rest, cl.current)]]

\* Reserve that retires the old chunk into a new buffer, as a growing Vec
\* moves its elements
ReserveMovesOld(cl, additional, umax) ==
    LET double_cap == checked_mul(cl.current.cap, 2, umax)
        required_cap == checked_next_power_of_two(additional, umax)
        new_capacity == Max(double_cap, required_cap)
    IN IF double_cap = -1 \/ required_cap = -1
       THEN [ok |-> FALSE, overflow |-> TRUE, chunks |-> cl]
       ELSE IF new_capacity > isize_max(umax)
            THEN [ok |-> FALSE, overflow |-> FALSE, chunks |-> cl]
            ELSE [ok |-> TRUE, overflow |-> FALSE,
                  chunks |-> [current |-> VecWithCapacity(new_capacity),
                              rest |-> Append(cl.rest,
                                              [cl.current EXCEPT !.ptr = @ + 1])]]

\* Reserve that puts the retired chunk in front of rest
ReservePrepends(cl, additional, umax) ==
    LET double_cap == checked_mul(cl.current.cap, 2, umax)
        required_cap == checked_next_power_of_two(additional, umax)
        new_capacity == Max(double_cap, required_cap)
    IN IF double_cap = -1 \/ required_cap = -1
       THEN [ok |-> FALSE, overflow |-> TRUE, chunks |-> cl]
       ELSE IF new_capacity > isize_max(umax)
            THEN [ok |-> FALSE, overflow |-> FALSE, chunks |-> cl]
            ELSE [ok |-> TRUE, overflow |-> FALSE,
                  chunks |-> [current |-> VecWithCapacity(new_capacity),
                              rest |-> <<cl.current>> \o cl.rest]]

\* Reserve that doubles and ignores what is asked for
ReserveDoubleOnly(cl, additional, umax) ==
    LET double_cap == checked_mul(cl.current.cap, 2, umax)
    IN IF double_cap = -1
       THEN [ok |-> FALSE, overflow |-> TRUE, chunks |-> cl]
       ELSE IF double_cap > isize_max(umax)
            THEN [ok |-> FALSE, overflow |-> FALSE, chunks |-> cl]
            ELSE [ok |-> TRUE, overflow |-> FALSE,
                  chunks |-> [current |-> VecWithCapacity(double_cap),
                              rest |-> Append(cl.rest, cl.current)]]

\* ChunkList::reserve: a failed checked operation, or a new capacity that
\* Vec::with_capacity refuses, panics before self.current is replaced;
\* overflow tells the two apart
Reserve(cl, additional, umax) ==
    LET double_cap == checked_mul(cl.current.cap, 2, umax)
        required_cap == checked_next_power_of_two(additional, umax)
        new_capacity == Max(double_cap, required_cap)
    IN IF double_cap = -1 \/ required_cap = -1
       THEN [ok |-> FALSE, overflow |-> TRUE, chunks |-> cl]
       ELSE IF new_capacity > isize_max(umax)
            THEN [ok |-> FALSE, overflow |-> FALSE, chunks |-> cl]
            ELSE [ok |-> TRUE, overflow |-> FALSE,
                  chunks |-> [current |-> VecWithCapacity(new_capacity),
                              rest |-> Append(cl.rest, cl.current)]]

\* all chunks, oldest first; a chunk keeps its position in this list for life
AllChunks(cl) == Append(cl.rest, cl.current)

RECURSIVE Concat(_)
Concat(ss) == IF ss = <<>> THEN <<>> ELSE Head(ss) \o Concat(Tail(ss))

\* IntoVec with the current chunk appended first
IntoVecCurrentFirst(cl) ==
    cl.current.items \o Concat([k \in 1..Len(cl.rest) |-> cl.rest[k].items])

\* Arena::into_vec
IntoVec(cl) ==
    Concat([k \in 1..Len(cl.rest) |-> cl.rest[k].items]) \o cl.current.items

\* --------------------------------------------------- alloc / alloc_extend
NoRet == [kind |-> "none", call |-> 0, chunk |-> 0, ptr |-> 0, start |-> 0,
          vals |-> <<>>, msg |-> ""]

PanicRet(m) == [NoRet EXCEPT !.kind = "panic", !.msg = m]

\* an activation of alloc / alloc_extend / alloc_uninitialized: where it is
\* (at), its locals (iter, hint, i, next_item_index), and what it was called
\* with: its number (id), its values (vals), the chunk list it found (entry),
\* the path it took, whether its arithmetic overflowed the word
NoCall == [at |-> "none", kind |-> "none", id |-> 0, iter |-> <<>>, hint |-> 0, i |-> 0,
           next_item_index |-> 0, vals |-> <<>>, path |-> "none",
           entry |-> WithCapacity(0), overflowed |-> FALSE, wrapped |-> FALSE,
           nested |-> "none", before |-> WithCapacity(0)]

\* a frame is the chunk list together with the activation working on it
Frame(cl, c, r) == [chunks |-> cl, call |-> c, ret |-> r]

\* a panic unwinds the call: the iterator and the RefMut are dropped
Panicked(f, m) ==
    [f EXCEPT !.call.at = "none", !.call.iter = <<>>, !.ret = PanicRet(m)]

\* the same, for a panic raised by ChunkList::reserve
ReservePanicked(f, r) ==
    [Panicked(f, "capacity overflow") EXCEPT !.chunks = r.chunks,
                                              !.call.overflowed = (@ \/ r.overflow)]

\* AllocFastPath returning the slot before the one it wrote
AllocFastPathOffByOne(cl, value) ==
    LET len == Len0(cl.current) IN
    IF len < cl.current.cap
    THEN [ok |-> TRUE,
          chunks |-> [cl EXCEPT !.current.items = Append(@, value)],
          ret |-> [kind |-> "ref", call |-> value, chunk |-> Len(cl.rest) + 1,
                   ptr |-> cl.current.ptr, start |-> Max(len - 1, 0),
                   vals |-> <<value>>, msg |-> ""]]
    ELSE [ok |-> FALSE, chunks |-> cl, ret |-> NoRet]

\* Arena::alloc_fast_path
AllocFastPath(cl, value) ==
    LET len == Len0(cl.current) IN
    IF len < cl.current.cap
    THEN [ok |-> TRUE,
          chunks |-> [cl EXCEPT !.current.items = Append(@, value)],
          ret |-> [kind |-> "ref", call |-> value, chunk |-> Len(cl.rest) + 1,
                   ptr |-> cl.current.ptr, start |-> len, vals |-> <<value>>,
                   msg |-> ""]]
    ELSE [ok |-> FALSE, chunks |-> cl, ret |-> NoRet]

\* AllocExtendBegin growing already when the hint fills the chunk exactly
AllocExtendBeginEager(cl, id, items, hint, kind, umax, checks) ==
    LET len == Len0(cl.current)
        sum == len + hint
        c0 == [NoCall EXCEPT !.kind = kind, !.id = id, !.iter = items, !.hint = hint,
                             !.vals = items, !.entry = cl, !.overflowed = (sum > umax)]
        f0 == Frame(cl, c0, NoRet)
    IN IF sum > umax /\ checks
       THEN Panicked(f0, "attempt to add with overflow")
       ELSE IF (sum % (umax + 1)) >= cl.current.cap
            THEN LET r == Reserve(cl, hint, umax) IN
                 IF ~r.ok THEN ReservePanicked(f0, r)
                 ELSE Frame(r.chunks,
                            [c0 EXCEPT !.at = "extend", !.next_item_index = 0,
                                       !.path = "hint_exceeds",
                                       !.wrapped = (sum > umax)],
                            NoRet)
            ELSE Frame(cl,
                       [c0 EXCEPT !.at = "loop", !.next_item_index = len, !.i = 0,
                                  !.path = "fits", !.wrapped = (sum > umax)],
                       NoRet)

\* alloc_extend, lines 200-211: borrow, size hint, the choice of the path
AllocExtendBegin(cl, id, items, hint, kind, umax, checks) ==
    LET len == Len0(cl.current)
        sum == len + hint
        c0 == [NoCall EXCEPT !.kind = kind, !.id = id, !.iter = items, !.hint = hint,
                             !.vals = items, !.entry = cl, !.overflowed = (sum > umax)]
        f0 == Frame(cl, c0, NoRet)
    IN IF sum > umax /\ checks
       THEN Panicked(f0, "attempt to add with overflow")
       ELSE IF (sum % (umax + 1)) > cl.current.cap
            THEN LET r == Reserve(cl, hint, umax) IN
                 IF ~r.ok THEN ReservePanicked(f0, r)
                 ELSE Frame(r.chunks,
                            [c0 EXCEPT !.at = "extend", !.next_item_index = 0,
                                       !.path = "hint_exceeds",
                                       !.wrapped = (sum > umax)],
                            NoRet)
            ELSE Frame(cl,
                       [c0 EXCEPT !.at = "loop", !.next_item_index = len, !.i = 0,
                                  !.path = "fits", !.wrapped = (sum > umax)],
                       NoRet)

\* AllocExtendReturn with the slice taken from the start of the current chunk
AllocExtendReturnWhole(f) ==
    LET cur == f.chunks.current IN
    [f EXCEPT !.call.at = "none",
              !.ret = [kind |-> IF f.call.kind = "alloc" THEN "ref" ELSE "slice",
                       call |-> f.call.id, chunk |-> Len(f.chunks.rest) + 1,
                       ptr |-> cur.ptr, start |-> 0,
                       vals |-> IF f.call.kind = "alloc" /\ cur.items # <<>>
                                THEN <<cur.items[1]>> ELSE cur.items,
                       msg |-> ""]]

\* alloc_extend, lines 236-247 (and the [0] of alloc_slow_path, line 181)
AllocExtendReturn(f) ==
    LET cur == f.chunks.current
        n == f.call.next_item_index
        slice == SubSeq(cur.items, n + 1, Len(cur.items))
    IN IF f.call.kind = "alloc" /\ slice = <<>>
       THEN Panicked(f, "index out of bounds")
       ELSE [f EXCEPT !.call.at = "none",
                      !.ret = [kind |-> IF f.call.kind = "alloc" THEN "ref" ELSE "slice",
                               call |-> f.call.id,
                               chunk |-> Len(f.chunks.rest) + 1, ptr |-> cur.ptr,
                               start |-> n,
                               vals |-> IF f.call.kind = "alloc" THEN <<slice[1]>> ELSE slice,
                               msg |-> ""]]

\* DrainTail copying the tail instead of moving it out
DrainTailCopies(prev, i) ==
    [taken |-> SubSeq(prev.items, Len(prev.items) - i + 1, Len(prev.items)),
     left |-> prev]

\* DrainTail with the range starting one element early
DrainTailTooMany(prev, i) ==
    LET n == Min(i + 1, Len(prev.items)) IN
    [taken |-> SubSeq(prev.items, Len(prev.items) - n + 1, Len(prev.items)),
     left |-> [prev EXCEPT !.items = SubSeq(@, 1, Len(prev.items) - n)]]

\* the tail of the retired chunk that this call pushed: previous_chunk.drain(len - i..)
DrainTail(prev, i) ==
    [taken |-> SubSeq(prev.items, Len(prev.items) - i + 1, Len(prev.items)),
     left |-> [prev EXCEPT !.items = SubSeq(@, 1, Len(prev.items) - i)]]

\* alloc_extend, lines 213-234: one round of the while-let loop
AllocExtendLoop(f, umax) ==
    LET cl == f.chunks
        c == f.call
    IN IF c.iter = <<>> THEN AllocExtendReturn(f)
       ELSE LET elem == Head(c.iter)
                c1 == [c EXCEPT !.iter = Tail(@), !.hint = Max(@ - 1, 0)]
            IN IF Len0(cl.current) = cl.current.cap
               THEN LET r == Reserve(cl, c.i + 1, umax) IN
                    IF ~r.ok THEN ReservePanicked(f, r)
                    ELSE LET k == Len(r.chunks.rest)
                             d == DrainTail(r.chunks.rest[k], c.i)
                             e == VecExtendAll(r.chunks.current, d.taken, umax)
                             p == VecPushHint(e.vec, elem, 0, umax)
                             cl1 == [current |-> p.vec,
                                     rest |-> [r.chunks.rest EXCEPT ![k] = d.left]]
                         IN IF ~e.ok \/ ~p.ok
                            THEN Panicked([f EXCEPT !.chunks = cl1], "capacity overflow")
                            ELSE [f EXCEPT !.chunks = cl1,
                                           !.call = [c1 EXCEPT !.at = "extend",
                                                               !.next_item_index = 0,
                                                               !.path = "fills_midway"]]
               ELSE [f EXCEPT !.chunks.current.items = Append(@, elem),
                              !.call = [c1 EXCEPT !.i = @ + 1]]

\* chunks.current.extend(iter), lines 208 and 227: one round of Vec::extend
AllocExtendExtend(f, umax) ==
    LET c == f.call IN
    IF c.iter = <<>> THEN AllocExtendReturn(f)
    ELSE LET c1 == [c EXCEPT !.iter = Tail(@), !.hint = Max(@ - 1, 0)]
             p == VecPushHint(f.chunks.current, Head(c.iter), c1.hint, umax)
         IN IF ~p.ok THEN Panicked(f, "capacity overflow")
            ELSE [f EXCEPT !.chunks.current = p.vec, !.call = c1]

\* one step of a running alloc_extend
AllocExtendStep(f, umax) ==
    IF f.call.at = "loop" THEN AllocExtendLoop(f, umax) ELSE AllocExtendExtend(f, umax)

RECURSIVE AllocExtendRun(_, _)
\* a running alloc_extend taken to its end
AllocExtendRun(f, umax) ==
    IF f.call.at = "none" THEN f ELSE AllocExtendRun(AllocExtendStep(f, umax), umax)

\* Arena::alloc_extend as one call
AllocExtendCall(cl, id, items, hint, umax, checks) ==
    AllocExtendRun(AllocExtendBegin(cl, id, items, hint, "extend", umax, checks), umax)

\* Arena::alloc (with alloc_slow_path) up to the first step of its alloc_extend
AllocBegin(cl, value, umax, checks) ==
    LET fast == AllocFastPath(cl, value) IN
    IF fast.ok
    THEN Frame(fast.chunks, [NoCall EXCEPT !.kind = "alloc", !.id = value,
                                           !.vals = <<value>>, !.path = "fast",
                                           !.entry = cl],
               fast.ret)
    ELSE AllocExtendBegin(cl, value, <<value>>, 1, "alloc", umax, checks)

\* Arena::alloc as one call
AllocCall(cl, value, umax, checks) ==
    AllocExtendRun(AllocBegin(cl, value, umax, checks), umax)

\* Vec::set_len: nothing is initialised (0 marks an uninitialised slot) and
\* nothing is dropped
VecSetLen(v, new_len) ==
    [v EXCEPT !.items = [k \in 1..new_len |-> IF k <= Len(v.items) THEN v.items[k] ELSE 0]]

\* Arena::alloc_uninitialized
AllocUninitialized(cl, id, num, umax, checks) ==
    LET len == Len0(cl.current)
        sum == len + num
        c0 == [NoCall EXCEPT !.kind = "uninit", !.id = id, !.hint = num, !.entry = cl,
                             !.overflowed = (sum > umax)]
        f0 == Frame(cl, c0, NoRet)
    IN IF sum > umax /\ checks
       THEN Panicked(f0, "attempt to add with overflow")
       ELSE LET r == IF (sum % (umax + 1)) > cl.current.cap
                     THEN Reserve(cl, num, umax)
                     ELSE [ok |-> TRUE, overflow |-> FALSE, chunks |-> cl]
            IN IF ~r.ok THEN ReservePanicked(f0, r)
               ELSE LET next_item_index == Len0(r.chunks.current)
                        sum2 == next_item_index + num
                        c1 == [c0 EXCEPT !.next_item_index = next_item_index,
                                         !.overflowed = (@ \/ sum2 > umax),
                                         !.wrapped = (sum > umax \/ sum2 > umax)]
                        new_len == sum2 % (umax + 1)
                        cl1 == [r.chunks EXCEPT !.current = VecSetLen(@, new_len)]
                    IN IF sum2 > umax /\ checks
                       THEN Panicked(Frame(r.chunks, c1, NoRet),
                                     "attempt to add with overflow")
                       ELSE IF next_item_index > new_len
                            THEN Panicked(Frame(cl1, c1, NoRet),
                                          "slice index starts past the end")
                            ELSE Frame(cl1, c1,
                                       [kind |-> "raw", call |-> id,
                                        chunk |-> Len(cl1.rest) + 1,
                                        ptr |-> cl1.current.ptr,
                                        start |-> next_item_index,
                                        vals |-> [k \in 1..num |-> 0], msg |-> ""])

\* UninitializedArray taking the slots it returns into the length of the chunk
UninitializedArrayClaims(cl, id) ==
    LET len == cl.current.cap - Len0(cl.current)
        next_item_index == Len0(cl.current)
    IN Frame([cl EXCEPT !.current = VecSetLen(@, cl.current.cap)],
             [NoCall EXCEPT !.kind = "unused", !.id = id, !.entry = cl],
             [kind |-> "unused", call |-> id, chunk |-> Len(cl.rest) + 1,
              ptr |-> cl.current.ptr, start |-> next_item_index,
              vals |-> [k \in 1..len |-> 0], msg |-> ""])

\* Arena::uninitialized_array: the free slots of the current chunk
UninitializedArray(cl, id) ==
    LET len == cl.current.cap - Len0(cl.current)
        next_item_index == Len0(cl.current)
    IN Frame(cl,
             [NoCall EXCEPT !.kind = "unused", !.id = id, !.entry = cl],
             [kind |-> "unused", call |-> id, chunk |-> Len(cl.rest) + 1,
              ptr |-> cl.current.ptr, start |-> next_item_index,
              vals |-> [k \in 1..len |-> 0], msg |-> ""])

\* slots of the arena that were reserved and never initialised
NumUninit(cl) == LET all == IntoVec(cl) IN Cardinality({k \in 1..Len(all) : all[k] = 0})

\* the counts the caller asks alloc_uninitialized for
UninitCounts(umax) == (0..MaxUninit) \cup {umax}

\* Drop for Arena: ChunkList drops current, then rest; a Vec drops its elements
DropChunkList(cl) ==
    cl.current.items \o Concat([k \in 1..Len(cl.rest) |-> cl.rest[k].items])

RECURSIVE AllocEach(_, _, _, _)
\* arena.alloc(v) for each v of values, in order
AllocEach(cl, values, umax, checks) ==
    IF values = <<>> THEN cl
    ELSE AllocEach(AllocCall(cl, Head(values), umax, checks).chunks, Tail(values),
                   umax, checks)

\* the references a finished call hands to its caller
RefsOf(r) ==
    IF r.kind \in {"ref", "slice", "raw"}
    THEN {[val |-> r.vals[k], call |-> r.call, chunk |-> r.chunk, ptr |-> r.ptr,
           idx |-> r.start + k] : k \in 1..Len(r.vals)}
    ELSE {}

\* ------------------------------------------------------------- iteration
NoIter == [position |-> [tag |-> "Rest", index |-> 0, inner_index |-> 0],
           yielded |-> <<>>, exhausted |-> FALSE]

RECURSIVE IterMutNext(_, _)

\* IterMutNext leaving rest for current as soon as one rest chunk is exhausted
IterMutNextLeavesRest(cl, position) ==
    IF position.tag = "Rest"
    THEN IF position.index < Len(cl.rest)
         THEN LET chunk == cl.rest[position.index + 1] IN
              IF position.inner_index < Len(chunk.items)
              THEN [position |-> [position EXCEPT !.inner_index = @ + 1],
                    out |-> [chunk |-> position.index + 1,
                             idx |-> position.inner_index + 1,
                             val |-> chunk.items[position.inner_index + 1]]]
              ELSE IterMutNext(cl, [tag |-> "Current", index |-> 0, inner_index |-> 0])
         ELSE IterMutNext(cl, [tag |-> "Current", index |-> 0, inner_index |-> 0])
    ELSE IF position.index < Len0(cl.current)
         THEN [position |-> [position EXCEPT !.index = @ + 1],
               out |-> [chunk |-> Len(cl.rest) + 1, idx |-> position.index + 1,
                        val |-> cl.current.items[position.index + 1]]]
         ELSE [position |-> position, out |-> [chunk |-> 0, idx |-> 0, val |-> 0]]

\* IterMut::next: the new position and the slot yielded (chunk 0 = None)
IterMutNext(cl, position) ==
    IF position.tag = "Rest"
    THEN IF position.index < Len(cl.rest)
         THEN LET chunk == cl.rest[position.index + 1] IN
              IF position.inner_index < Len(chunk.items)
              THEN [position |-> [position EXCEPT !.inner_index = @ + 1],
                    out |-> [chunk |-> position.index + 1,
                             idx |-> position.inner_index + 1,
                             val |-> chunk.items[position.inner_index + 1]]]
              ELSE IterMutNext(cl, [tag |-> "Rest", index |-> position.index + 1,
                                    inner_index |-> 0])
         ELSE IterMutNext(cl, [tag |-> "Current", index |-> 0, inner_index |-> 0])
    ELSE IF position.index < Len0(cl.current)
         THEN [position |-> [position EXCEPT !.index = @ + 1],
               out |-> [chunk |-> Len(cl.rest) + 1, idx |-> position.index + 1,
                        val |-> cl.current.items[position.index + 1]]]
         ELSE [position |-> position, out |-> [chunk |-> 0, idx |-> 0, val |-> 0]]

\* IterMut::size_hint: (lo, Some(hi)); it reads the chunk list and not the
\* position of the iterator.  The product is unchecked usize arithmetic:
\* it panics when overflow checks are on and wraps when they are off
SizeHint(cl, umax, checks) ==
    LET current_len == Len0(cl.current)
        current_cap == cl.current.cap
    IN IF cl.rest = <<>>
       THEN [lo |-> current_len, hi |-> current_len, panic |-> FALSE]
       ELSE LET rest_len == Len(cl.rest)
                last_chunk_len == Len0(cl.rest[rest_len])
                min == current_len + last_chunk_len
                product == rest_len * current_cap
                max == min + ((product % (umax + 1)) \div rest_len)
            IN [lo |-> min % (umax + 1), hi |-> max % (umax + 1),
                panic |-> checks /\ (min > umax \/ product > umax \/ max > umax)]

\* ---------------------------------------------------------------- Init
InitWith(bits) ==
    /\ usize_max = Pow2(bits) - 1
    /\ overflow_checks \in BOOLEAN
    /\ requested \in 0..MaxInitCap
    /\ chunks = WithCapacity(requested)
    /\ twin = WithCapacity(1)
    /\ twin_ret = NoRet
    /\ single = chunks
    /\ borrow = 0
    /\ pc = "idle"
    /\ call = NoCall
    /\ ret = NoRet
    /\ refs = {}
    /\ nextVal = 1
    /\ itermut = NoIter
    /\ vec = <<>>
    /\ other = [v \in 1..MaxElems + 1 |-> 0]
    /\ destroyed = <<>>

Init == InitWith(WordBits)

\* --------------------------------------------------------------- actions
\* the values the caller holds a reference to
RefVals == {r.val : r \in refs} \ {0}

\* objects that are part of a cycle
Linked == {v \in DOMAIN other : other[v] # 0}

\* RefCell::try_borrow_mut granted whatever the flag says
TryBorrowUnchecked(flag) == TRUE

\* RefCell::try_borrow_mut / try_borrow of Arena.chunks while the flag says
\* flag: both need the cell not to be mutably borrowed
TryBorrow(flag) == flag = 0

\* self.chunks.borrow_mut() / borrow() at the head of an operation: the
\* operation goes on to f, or panics with msg before it has done anything
Borrowing(f, msg) ==
    IF TryBorrow(borrow) THEN f
    ELSE Frame(chunks, [NoCall EXCEPT !.entry = chunks], PanicRet(msg))

\* the frame f becomes the state; a finished call releases the borrow and
\* hands its references out; a panic unwinds through the caller, which can
\* do no more with the arena than drop it (Arena is not UnwindSafe)
Install(f) ==
    /\ chunks' = f.chunks
    /\ call' = f.call
    /\ ret' = f.ret
    /\ pc' = IF f.ret.kind = "panic" THEN "panicked"
             ELSE IF f.call.at = "none" THEN "idle" ELSE "alloc_extend"
    /\ borrow' = IF f.call.at = "none" THEN 0 ELSE 1
    /\ refs' = IF f.call.at = "none" THEN refs \cup RefsOf(f.ret) ELSE refs

\* arena.alloc(value)
Alloc ==
    /\ pc = "idle"
    /\ nextVal <= MaxElems
    /\ Install(Borrowing(AllocBegin(chunks, nextVal, usize_max, overflow_checks),
                         "already borrowed"))
    /\ nextVal' = nextVal + 1
    /\ LET t == AllocCall(twin, nextVal, usize_max, overflow_checks) IN
       twin' = t.chunks /\ twin_ret' = t.ret
    /\ UNCHANGED <<usize_max, overflow_checks, requested, single, itermut, vec, other,
                   destroyed>>

\* arena.alloc_extend(iterable): the iterable yields n values and reports
\* the lower bound hint <= n
AllocExtend ==
    /\ pc = "idle"
    /\ \E n \in 0..MaxSeqLen : \E hint \in 0..n :
         /\ nextVal + n - 1 <= MaxElems
         /\ LET items == [k \in 1..n |-> nextVal + k - 1] IN
            /\ Install(Borrowing(AllocExtendBegin(chunks, nextVal, items, hint,
                                                  "extend", usize_max,
                                                  overflow_checks),
                                 "already borrowed"))
            /\ LET t == AllocExtendCall(twin, nextVal, items, hint, usize_max,
                                        overflow_checks) IN
               twin' = t.chunks /\ twin_ret' = t.ret
            /\ single' = AllocEach(chunks, items, usize_max, overflow_checks)
         /\ nextVal' = nextVal + n
    /\ UNCHANGED <<usize_max, overflow_checks, requested, itermut, vec, other, destroyed>>

\* the running alloc_extend takes the next element of its iterator
AllocExtendNext ==
    /\ pc = "alloc_extend"
    /\ Install(AllocExtendStep(Frame(chunks, call, ret), usize_max))
    /\ UNCHANGED <<usize_max, overflow_checks, nextVal, requested, twin, twin_ret, single,
                   itermut, vec, other, destroyed>>

\* arena.iter_mut(); &mut self: not while objects that hold references into
\* the arena keep it borrowed
IterMut ==
    /\ pc = "idle" /\ borrow = 0
    /\ Linked = {}
    /\ pc' = "iter_mut"
    /\ itermut' = NoIter
    /\ UNCHANGED <<usize_max, overflow_checks, chunks, borrow, call, ret, refs, nextVal,
                   requested, twin, twin_ret, single, vec, other, destroyed>>

\* iterator.next()
IterNext ==
    /\ pc = "iter_mut" /\ ~itermut.exhausted
    /\ LET r == IterMutNext(chunks, itermut.position) IN
       itermut' = IF r.out.chunk = 0
                  THEN [itermut EXCEPT !.position = r.position, !.exhausted = TRUE]
                  ELSE [itermut EXCEPT !.position = r.position,
                                       !.yielded = Append(@, r.out)]
    /\ UNCHANGED <<usize_max, overflow_checks, chunks, borrow, pc, call, ret, refs,
                   nextVal, requested, twin, twin_ret, single, vec, other, destroyed>>

\* the iterator is dropped, at any point of the iteration
IterDrop ==
    /\ pc = "iter_mut"
    /\ pc' = "idle"
    /\ itermut' = NoIter
    /\ UNCHANGED <<usize_max, overflow_checks, chunks, borrow, call, ret, refs, nextVal,
                   requested, twin, twin_ret, single, vec, other, destroyed>>

\* arena.into_vec(); self by value: not while the arena is borrowed
ArenaIntoVec ==
    /\ pc = "idle" /\ borrow = 0
    /\ Linked = {}
    /\ pc' = "into_vec"
    /\ vec' = IntoVec(chunks)
    /\ UNCHANGED <<usize_max, overflow_checks, chunks, borrow, call, ret, refs, nextVal,
                   requested, twin, twin_ret, single, itermut, other, destroyed>>

\* arena.alloc_uninitialized(num); the slots it reserves are for the next
\* num values of the caller
ArenaAllocUninitialized ==
    /\ pc = "idle"
    /\ NumUninit(chunks) < MaxUninit
    /\ \E num \in UninitCounts(usize_max) :
         LET f == Borrowing(AllocUninitialized(chunks, nextVal, num, usize_max,
                                              overflow_checks),
                           "already borrowed")
             n == IF f.ret.kind = "raw" THEN num ELSE 0
         IN /\ nextVal + n - 1 <= MaxElems
            /\ Install(f)
            /\ nextVal' = nextVal + n
    /\ UNCHANGED <<usize_max, overflow_checks, requested, twin, twin_ret, single,
                   itermut, vec, other, destroyed>>

\* arena.uninitialized_array(); the shared borrow is taken and released
\* inside the call
ArenaUninitializedArray ==
    /\ pc = "idle"
    /\ Install(Borrowing(UninitializedArray(chunks, nextVal),
                         "already mutably borrowed"))
    /\ UNCHANGED <<usize_max, overflow_checks, nextVal, requested, twin, twin_ret, single,
                   itermut, vec, other, destroyed>>

\* the operations an iterator can call on the arena it is consumed into
NestedOps == {"alloc", "alloc_extend", "alloc_uninitialized", "uninitialized_array"}

\* the iterator that the running alloc_extend is consuming calls op on the
\* same arena from its next(): borrow_mut() / borrow() panics, and the panic
\* unwinds through alloc_extend
NestedCall ==
    /\ pc = "alloc_extend"
    /\ \E op \in NestedOps :
         LET c == [call EXCEPT !.nested = op, !.before = chunks]
             t == IF op = "uninitialized_array"
                  THEN UninitializedArray(chunks, nextVal)
                  ELSE IF op = "alloc_uninitialized"
                  THEN AllocUninitialized(chunks, nextVal, 1, usize_max, overflow_checks)
                  ELSE IF op = "alloc"
                  THEN AllocCall(chunks, MaxElems + 1, usize_max, overflow_checks)
                  ELSE AllocExtendCall(chunks, MaxElems + 1, <<MaxElems + 1>>, 0,
                                       usize_max, overflow_checks)
             msg == IF op = "uninitialized_array" THEN "already mutably borrowed"
                    ELSE "already borrowed"
         IN IF TryBorrow(borrow)
            THEN Install(Frame(t.chunks, c, ret))
            ELSE Install(Panicked(Frame(chunks, c, ret), msg))
    /\ UNCHANGED <<usize_max, overflow_checks, nextVal, requested, twin, twin_ret, single,
                   itermut, vec, other, destroyed>>

\* a.other.set(Some(b)); b.other.set(Some(a)): for two objects allocated one
\* after the other (crate docs, Safe Cycles)
LinkCycle ==
    /\ pc = "idle"
    /\ Cardinality(Linked) < 2 * MaxCycles
    /\ \E a \in RefVals :
         /\ a + 1 \in RefVals
         /\ other[a] = 0 /\ other[a + 1] = 0
         /\ other' = [other EXCEPT ![a] = a + 1, ![a + 1] = a]
    /\ UNCHANGED <<usize_max, overflow_checks, chunks, borrow, pc, call, ret, refs,
                   nextVal, requested, twin, twin_ret, single, itermut, vec, destroyed>>

\* the arena goes out of scope, or is dropped by the unwinding of a panic
DropArena ==
    /\ pc \in {"idle", "panicked"} /\ borrow = 0
    /\ pc' = "dropped"
    /\ destroyed' = DropChunkList(chunks)
    /\ UNCHANGED <<usize_max, overflow_checks, chunks, borrow, call, ret, refs, nextVal,
                   requested, twin, twin_ret, single, itermut, vec, other>>

Next ==
    \/ Alloc
    \/ AllocExtend
    \/ AllocExtendNext
    \/ IterMut
    \/ IterNext
    \/ IterDrop
    \/ ArenaIntoVec
    \/ LinkCycle
    \/ DropArena

Spec == Init /\ [][Next]_vars

\* the same program on a target with a narrow usize
InitSmall == InitWith(SmallWordBits)

SpecSmall == InitSmall /\ [][Next]_vars

\* the narrow target, with alloc_uninitialized among the calls
NextOverflow ==
    \/ Alloc
    \/ AllocExtend
    \/ AllocExtendNext
    \/ ArenaAllocUninitialized
    \/ ArenaIntoVec
    \/ DropArena

SpecOverflow == InitSmall /\ [][NextOverflow]_vars

\* an arena that gets its values through alloc only
NextAllocOnly ==
    \/ Alloc
    \/ AllocExtendNext
    \/ IterMut
    \/ IterNext
    \/ IterDrop
    \/ ArenaIntoVec
    \/ DropArena

SpecAllocOnly == Init /\ [][NextAllocOnly]_vars

\* every allocation operation, the raw ones and calls made by the iterator
\* of a running alloc_extend included
NextRaw ==
    \/ Alloc
    \/ AllocExtend
    \/ AllocExtendNext
    \/ ArenaAllocUninitialized
    \/ ArenaUninitializedArray
    \/ NestedCall
    \/ IterMut
    \/ IterNext
    \/ IterDrop
    \/ ArenaIntoVec
    \/ DropArena

SpecRaw == Init /\ [][NextRaw]_vars

\* ---------------------------------------------------------------- claims
\* the values handed to the arena so far, in the order they were handed over
Expected == [k \in 1..(nextVal - 1) |-> k]

\* the chunks retired so far hold exactly what cl held
RestHolds(cl) ==
    Concat([k \in 1..Len(chunks.rest) |-> chunks.rest[k].items]) = IntoVec(cl)

\* the slot of reference r is where it was and holds what it held
StableRef(r) ==
    LET cs == AllChunks(chunks) IN
    /\ r.chunk <= Len(cs)
    /\ cs[r.chunk].ptr = r.ptr
    /\ r.idx <= Len(cs[r.chunk].items)
    /\ cs[r.chunk].items[r.idx] = r.val

\* C1: every reference returned by a completed alloc or alloc_extend stays
\* in the same chunk, at the same index of the same buffer, with the same
\* value, in every later state (also in the middle of a later call); and
\* after the tail-move of alloc_extend the retired chunks still hold every
\* element the call found in the arena.
C1_Stability ==
    /\ \A r \in refs : StableRef(r)
    /\ call.path = "fills_midway" => RestHolds(call.entry)

\* an alloc_extend filled the current chunk midway, moved at least one of
\* its own elements, and the retired chunk holds an earlier call's reference
C1_Witness ==
    /\ pc = "idle" /\ call.path = "fills_midway" /\ call.i >= 1
    /\ \E r \in refs : r.chunk = Len(chunks.rest) /\ r.call # call.id

\* C2: into_vec returns, and a full iter_mut yields, the stored values in
\* the order they were allocated.
C2_OrderPreserved ==
    /\ pc = "into_vec" => vec = Expected
    /\ (pc = "iter_mut" /\ itermut.exhausted) =>
          [k \in 1..Len(itermut.yielded) |-> itermut.yielded[k].val] = Expected

\* into_vec after two growths, the last one a tail-move
C2_Witness ==
    /\ pc = "into_vec" /\ Len(chunks.rest) >= 2
    /\ call.path = "fills_midway" /\ call.i >= 1
    /\ Len(vec) >= 4

\* C3: for a hint not above the true length, alloc_extend returns one
\* contiguous slice at the end of the current chunk whose contents are
\* exactly the elements of the sequence, in input order.
C3_SliceIsSequence ==
    ret.kind = "slice" =>
        /\ ret.vals = call.vals
        /\ ret.chunk = Len(chunks.rest) + 1
        /\ ret.ptr = chunks.current.ptr
        /\ SubSeq(chunks.current.items, ret.start + 1, Len0(chunks.current)) = call.vals

\* the hardest path: the chunk filled before the sequence ended
C3_Witness ==
    /\ ret.kind = "slice" /\ call.path = "fills_midway" /\ call.i >= 1
    /\ Len(call.vals) >= 3
    /\ call.entry.current.items # <<>>

\* every occupied slot of cl, oldest chunk first
SlotsOf(cl) ==
    LET cs == AllChunks(cl) IN
    Concat([k \in 1..Len(cs) |->
              [j \in 1..Len(cs[k].items) |->
                 [chunk |-> k, idx |-> j, val |-> cs[k].items[j]]]])

\* C4: an iter_mut yields the occupied slots in order, oldest chunk first,
\* none twice and none skipped, and reports exhaustion after exactly as
\* many as there are stored elements.
C4_ExactlyOnce ==
    pc = "iter_mut" =>
        LET all == SlotsOf(chunks)
            y == itermut.yielded
        IN /\ Len(y) <= Len(all)
           /\ y = SubSeq(all, 1, Len(y))
           /\ \A a, b \in 1..Len(y) :
                 a # b => <<y[a].chunk, y[a].idx>> # <<y[b].chunk, y[b].idx>>
           /\ itermut.exhausted => Len(y) = Len(IntoVec(chunks)) /\ y = all

\* a finished iteration over an empty and a partly filled retired chunk
C4_Witness ==
    /\ pc = "iter_mut" /\ itermut.exhausted
    /\ \E k \in 1..Len(chunks.rest) : chunks.rest[k].items = <<>>
    /\ \E k \in 1..Len(chunks.rest) :
         /\ chunks.rest[k].items # <<>>
         /\ Len0(chunks.rest[k]) < chunks.rest[k].cap
    /\ Len(itermut.yielded) >= 3

\* C5: references returned by the arena never share a slot: two different
\* references are to two different (chunk, index) slots.
C5_NonAliasing ==
    \A r1, r2 \in refs :
        r1 # r2 => <<r1.chunk, r1.idx>> # <<r2.chunk, r2.idx>>

\* references of an alloc and of an alloc_extend in one chunk
C5_Witness ==
    /\ pc = "idle"
    /\ \E r1, r2 \in refs :
         /\ r1.call # r2.call /\ r1.chunk = r2.chunk
         /\ r1.call = r1.val /\ \E r3 \in refs : r3.call = r2.call /\ r3 # r2

\* how often v occurs in seq
Count(seq, v) == Cardinality({k \in 1..Len(seq) : seq[k] = v})

\* the values of the calls completed so far
CompletedVals == IF pc = "alloc_extend" THEN 1..(call.id - 1) ELSE 1..(nextVal - 1)

\* the values found by walking the physical storage
StoredVals == LET slots == SlotsOf(chunks) IN [k \in 1..Len(slots) |-> slots[k].val]

\* C6: every value handed over by a completed call occupies exactly one
\* slot across rest and current (no value of a running call occupies two),
\* and dropping the arena, which walks the chunks and not the references
\* between the objects, destroys each object exactly once.
C6_DestroyedOnce ==
    /\ LET stored == StoredVals IN
       /\ \A v \in CompletedVals : Count(stored, v) = 1
       /\ \A v \in 1..(nextVal - 1) : Count(stored, v) <= 1
    /\ pc = "dropped" =>
          /\ Len(destroyed) = nextVal - 1
          /\ \A v \in 1..(nextVal - 1) : Count(destroyed, v) = 1

\* an arena dropped with a reference cycle between two of its objects,
\* after a tail-move
C6_Witness ==
    /\ pc = "dropped" /\ Linked # {}
    /\ \E v \in Linked : other[other[v]] = v
    /\ call.path = "fills_midway" /\ call.i >= 1

\* C7: from one arena state, the values given one at a time to alloc and
\* the same values given to one alloc_extend (any hint) lead to arenas
\* with the same into_vec.
C7_BulkSingle ==
    (pc = "idle" /\ ret.kind = "slice") => IntoVec(single) = IntoVec(chunks)

\* the two arenas have the same contents in different chunks
C7_Witness ==
    /\ pc = "idle" /\ ret.kind = "slice" /\ Len(call.vals) >= 2
    /\ Len(single.rest) # Len(chunks.rest)
    /\ call.entry.current.items # <<>>

\* C8: an arena built by with_capacity(0) starts as one empty chunk of
\* capacity 1 and no rest, as the arena built by with_capacity(1) does, and
\* after every same sequence of calls the two are in the same state with
\* the same results.
C8_CapacityFloor ==
    requested = 0 =>
        /\ nextVal = 1 => chunks = [current |-> [items |-> <<>>, cap |-> 1, ptr |-> 0],
                                    rest |-> <<>>]
        /\ pc = "idle" => chunks = twin /\ ret = twin_ret

\* the two arenas after two growths
C8_Witness ==
    /\ requested = 0 /\ pc = "idle" /\ Len(chunks.rest) >= 2
    /\ ret.kind = "slice"

\* the arena holds what the running or last call found, then the first k
\* values of the call
CallStored(k) == IntoVec(chunks) = IntoVec(call.entry) \o SubSeq(call.vals, 1, k)

\* the last alloc / alloc_extend returned references to all its values
CallReturnedAll ==
    /\ ret.kind \in {"ref", "slice"}
    /\ ret.vals = call.vals
    /\ CallStored(Len(call.vals))
    /\ \A r \in RefsOf(ret) : r \in refs /\ StableRef(r)

\* C9 as claimed: a finished alloc or alloc_extend has stored all its
\* values and returned a reference to them, or it escalated a fatal
\* condition and none of its values is in the arena.
C9_NoPartialState ==
    (pc \in {"idle", "panicked"} /\ call.kind \in {"alloc", "extend"}) =>
        \/ CallReturnedAll
        \/ ret.kind = "panic" /\ CallStored(0)

\* C9 amended: a call that returns has stored all its values and returned
\* a reference to them; a call that escalates a fatal condition leaves
\* what the arena held before in place, followed by none of its values or
\* by a leading part of them.
C9_AllOrPrefix ==
    (pc \in {"idle", "panicked"} /\ call.kind \in {"alloc", "extend"}) =>
        \/ CallReturnedAll
        \/ ret.kind = "panic" /\ \E k \in 0..Len(call.vals) : CallStored(k)

\* an alloc_extend that panicked with some, not all, of its values stored
C9_Witness ==
    /\ pc = "panicked" /\ call.kind = "extend"
    /\ \E k \in 1..(Len(call.vals) - 1) : CallStored(k)

\* C10 as claimed: a call whose size arithmetic overflowed the word ended
\* in a panic, with current and rest not replaced, and never went on with
\* the wrapped value.
C10_OverflowIsFatal ==
    call.overflowed =>
        /\ ret.kind = "panic"
        /\ ~call.wrapped
        /\ chunks.rest = call.entry.rest
        /\ chunks.current.cap = call.entry.current.cap
        /\ chunks.current.ptr = call.entry.current.ptr

\* the references into slots reserved by alloc_uninitialized
RawRefs == {r \in refs : r.val = 0}

\* C11 as claimed: alloc_uninitialized(num) that does not escalate a fatal
\* condition with the chunk list untouched leaves the current chunk (a new
\* one when the slots did not fit) longer by exactly num and not longer
\* than its capacity, returns exactly those num slots, and no later call
\* places a value in or returns a reference to a slot reserved this way.
C11_ReservesExactly ==
    /\ (pc \in {"idle", "panicked"} /\ call.kind = "uninit") =>
          \/ ret.kind = "panic" /\ chunks = call.entry
          \/ LET num == call.hint
                 grew == Len(chunks.rest) > Len(call.entry.rest)
                 before == IF grew THEN 0 ELSE Len0(call.entry.current)
             IN /\ ret.kind = "raw"
                /\ Len0(chunks.current) = before + num
                /\ Len0(chunks.current) <= chunks.current.cap
                /\ grew => chunks.rest = Append(call.entry.rest, call.entry.current)
                /\ ~grew => chunks.rest = call.entry.rest
                             /\ before + num <= call.entry.current.cap
                /\ ret.chunk = Len(chunks.rest) + 1 /\ ret.ptr = chunks.current.ptr
                /\ ret.start = before /\ Len(ret.vals) = num
    /\ \A r \in RawRefs :
          /\ StableRef(r)
          /\ \A r2 \in refs : r2 # r => <<r2.chunk, r2.idx>> # <<r.chunk, r.idx>>

\* C12: uninitialized_array leaves the chunk list as it found it and
\* returns the capacity - length slots of the current chunk that start at
\* index length; the slots are not allocated: no reference to them is
\* recorded, into_vec and a full iter_mut give exactly the allocated slots
\* and none of the region; and an alloc that follows on the fast path
\* writes its value into the first slot of the region.
C12_UnusedRegion ==
    /\ [](/\ (pc \in {"idle", "into_vec", "iter_mut"} /\ call.kind = "unused") =>
               /\ chunks = call.entry
               /\ ret.kind = "unused"
               /\ ret.chunk = Len(chunks.rest) + 1 /\ ret.ptr = chunks.current.ptr
               /\ ret.start = Len0(chunks.current)
               /\ Len(ret.vals) = chunks.current.cap - Len0(chunks.current)
               /\ \A r \in refs : ~(r.chunk = ret.chunk /\ r.idx > ret.start)
               /\ \A k \in 1..Len(itermut.yielded) :
                     ~(itermut.yielded[k].chunk = ret.chunk
                       /\ itermut.yielded[k].idx > ret.start)
          /\ pc = "into_vec" => Len(vec) = nextVal - 1
          /\ (pc = "iter_mut" /\ itermut.exhausted) =>
                Len(itermut.yielded) = nextVal - 1)
    /\ [][(pc = "idle" /\ call.kind = "unused"
            /\ call'.kind = "alloc" /\ call'.path = "fast") =>
              /\ ret'.kind = "ref"
              /\ ret'.chunk = ret.chunk /\ ret'.ptr = ret.ptr
              /\ ret'.start = ret.start
              /\ chunks'.current.items[ret.start + 1] = ret'.vals[1]
              /\ chunks'.rest = chunks.rest]_vars

\* a finished iteration after uninitialized_array returned two or more free
\* slots of a chunk that is not the first
C12_Witness ==
    /\ pc = "iter_mut" /\ itermut.exhausted /\ call.kind = "unused"
    /\ Len(ret.vals) >= 2 /\ Len(chunks.rest) >= 1
    /\ Len(itermut.yielded) >= 2

\* C13: in an arena created with capacity c >= 1 (with_capacity(0) counts
\* as c = 1) that gets its values through alloc only, the k-th chunk has
\* capacity c * 2^(k-1) in the buffer it was created with, every retired
\* chunk is full, and with k >= 2 chunks the number N of alloc calls made
\* is above c * (2^(k-1) - 1).
C13_AmortizedGrowth ==
    LET c == Max(MIN_CAPACITY, requested)
        cs == AllChunks(chunks)
        k == Len(cs)
        N == nextVal - 1
    IN /\ \A j \in 1..k : cs[j].cap = c * Pow2(j - 1) /\ cs[j].ptr = 0
       /\ \A j \in 1..(k - 1) : Len(cs[j].items) = cs[j].cap
       /\ k >= 2 => N > c * (Pow2(k - 1) - 1)

\* three chunks after alloc calls alone
C13_Witness ==
    /\ pc = "idle" /\ Len(chunks.rest) >= 2 /\ chunks.current.items # <<>>

RetiredClosed ==
    /\ \A j \in 1..Len(chunks.rest) :
          /\ Len(chunks'.rest) >= j
          /\ Len(chunks'.rest[j].items) <= Len(chunks.rest[j].items)
          /\ chunks'.rest[j].cap = chunks.rest[j].cap
          /\ chunks'.rest[j].ptr = chunks.rest[j].ptr
    /\ Len(chunks'.rest) > Len(chunks.rest) =>
          Len(chunks'.rest[Len(chunks.rest) + 1].items) <= Len0(chunks.current)

\* C16 as claimed: retired chunks are closed, and a step that changes rest
\* appends the chunk that was current, as it was, at the end of rest.
C16_RestAppendOnly ==
    [][/\ RetiredClosed
       /\ chunks'.rest # chunks.rest =>
             chunks'.rest = Append(chunks.rest, chunks.current)]_vars

\* C16 amended: retired chunks are closed: no step changes a chunk that
\* is in rest, and a step that changes rest appends the chunk that was
\* current at the end of rest, whole, or, in the tail-move of alloc_extend,
\* without the i trailing elements that the running call pushed into it,
\* which become the first elements of the new current chunk.
C16_RetiredClosed ==
    [][/\ RetiredClosed
       /\ \A j \in 1..Len(chunks.rest) : chunks'.rest[j] = chunks.rest[j]
       /\ chunks'.rest # chunks.rest =>
             \E i \in 0..Len0(chunks.current) :
                LET len == Len0(chunks.current) IN
                /\ chunks'.rest =
                      Append(chunks.rest,
                             [chunks.current EXCEPT !.items = SubSeq(@, 1, len - i)])
                /\ i > 0 =>
                      /\ pc = "alloc_extend" /\ call.at = "loop" /\ i = call.i
                      /\ Len0(chunks'.current) >= i
                      /\ SubSeq(chunks'.current.items, 1, i) =
                            SubSeq(chunks.current.items, len - i + 1, len)]_vars

\* after two tail-moves, the older one of two elements, from a chunk that
\* held elements of an earlier call
C16_Witness ==
    /\ Len(chunks.rest) >= 2
    /\ call.path = "fills_midway" /\ call.i >= 1
    /\ Len0(chunks.rest[Len(chunks.rest)]) < chunks.rest[Len(chunks.rest)].cap
    /\ chunks.rest[Len(chunks.rest)].items # <<>>

\* C17: an alloc that finds length < capacity appends its value at index
\* length of the current chunk and changes nothing else (rest, the number
\* of chunks, the capacity, the buffer, the elements already stored); an
\* alloc adds a chunk only when it finds the current chunk full; and an
\* alloc_extend whose elements all fit in the free slots of the current
\* chunk, filling it exactly included, adds no chunk at any of its steps.
C17_GrowthOnlyWhenNeeded ==
    LET e == call.entry
        free == e.current.cap - Len0(e.current)
    IN /\ (call.kind = "alloc" /\ free > 0) =>
             /\ pc # "alloc_extend" /\ ret.kind = "ref"
             /\ chunks = [e EXCEPT !.current.items = Append(@, call.id)]
             /\ ret.chunk = Len(e.rest) + 1 /\ ret.ptr = e.current.ptr
             /\ ret.start = Len0(e.current)
       /\ (call.kind = "alloc" /\ Len(chunks.rest) # Len(e.rest)) => free = 0
       /\ (call.kind = "extend" /\ Len(call.vals) <= free) =>
             /\ chunks.rest = e.rest
             /\ chunks.current.cap = e.current.cap
             /\ chunks.current.ptr = e.current.ptr
             /\ ret.kind # "panic"
             /\ pc # "alloc_extend" =>
                   chunks.current.items = e.current.items \o call.vals

\* an alloc_extend of two or more elements has filled a chunk, not the
\* first one, that already held elements, to exactly its capacity
C17_Witness ==
    /\ pc = "idle" /\ call.kind = "extend" /\ Len(call.vals) >= 2
    /\ call.entry.current.items # <<>> /\ Len(call.entry.rest) >= 1
    /\ Len0(call.entry.current) + Len(call.vals) = call.entry.current.cap

\* p is the smallest power of two that is at least x
IsNextPowerOfTwo(p, x) ==
    /\ \E e \in 0..WordBits : p = Pow2(e)
    /\ p >= x
    /\ p = 1 \/ p \div 2 < x

\* the chunk list after is the one before grown by reserve(additional)
GrownBy(before, after, additional) ==
    LET c == before.current.cap IN
    /\ after.current.items = <<>>
    /\ \E p \in 1..(usize_max + 1) :
          /\ IsNextPowerOfTwo(p, additional)
          /\ after.current.cap = Max(2 * c, p)
    /\ after.current.cap >= 2 * c
    /\ after.current.cap - Len0(after.current) >= additional
    /\ after.rest = Append(before.rest, before.current)
    /\ \A j \in 1..Len(before.rest) : after.rest[j] = before.rest[j]

\* C15: reserve(additional) on a chunk list whose current chunk has capacity
\* c, when it does not panic, makes current an empty chunk of capacity
\* exactly max(2 * c, next_power_of_two(additional)), which is at least
\* 2 * c and has at least additional free slots, appends the old current
\* unchanged at the end of rest and leaves the earlier chunks of rest as
\* they were: for every reachable chunk list and every additional, and for
\* the growth an alloc_extend makes before it takes its first element.
C15_GrowthPolicy ==
    /\ \A additional \in 0..(MaxSeqLen + 1) :
          LET r == Reserve(chunks, additional, usize_max) IN
          r.ok => GrownBy(chunks, r.chunks, additional)
    /\ (pc = "alloc_extend" /\ call.path = "hint_exceeds"
        /\ Len(call.iter) = Len(call.vals)) =>
          GrownBy(call.entry, chunks, call.hint)

\* an alloc_extend grew for a hint above the double of the capacity
C15_Witness ==
    /\ pc = "alloc_extend" /\ call.path = "hint_exceeds"
    /\ Len(call.iter) = Len(call.vals)
    /\ call.hint > 2 * call.entry.current.cap

\* the messages of the panics of RefCell::borrow_mut and RefCell::borrow
BorrowConflicts == {"already borrowed", "already mutably borrowed"}

\* C18: the borrow of the chunk list is held exactly while an alloc_extend
\* (or the slow path of alloc) is running and is released when alloc,
\* alloc_extend, alloc_uninitialized or uninitialized_array returns or
\* panics, so no call made between calls meets a borrow conflict; a call
\* made by the iterator of a running alloc_extend panics with a borrow
\* conflict, which ends the alloc_extend, and leaves the chunk list as the
\* nested call found it.
C18_BorrowDiscipline ==
    /\ borrow = (IF pc = "alloc_extend" THEN 1 ELSE 0)
    /\ (ret.kind = "panic" /\ ret.msg \in BorrowConflicts) => call.nested # "none"
    /\ call.nested # "none" =>
          /\ pc \in {"panicked", "dropped"}
          /\ ret.kind = "panic" /\ ret.msg \in BorrowConflicts
          /\ chunks = call.before

\* the iterator of an alloc_extend that had already grown the arena and
\* stored elements called alloc
C18_Witness ==
    /\ pc = "panicked" /\ call.nested = "alloc" /\ call.kind = "extend"
    /\ Len(chunks.rest) > Len(call.entry.rest)
    /\ chunks.current.items # <<>>
    /\ call.entry.current.items # <<>>

\* C19 as claimed: at every point of an iteration, whatever the arena holds
\* and however many elements next has yielded, size_hint returns (lo, hi)
\* with lo <= the number of elements still to be yielded <= hi.
C19_SizeHintBounds ==
    pc = "iter_mut" =>
        LET h == SizeHint(chunks, usize_max, overflow_checks)
            remaining == Len(IntoVec(chunks)) - Len(itermut.yielded)
        IN ~h.panic /\ h.lo <= remaining /\ remaining <= h.hi

TypeOK ==
    /\ pc \in {"idle", "alloc_extend", "iter_mut", "panicked", "into_vec", "dropped"}
    /\ borrow \in {0, 1}
    /\ nextVal \in 1..MaxElems + 1
====
